---- MODULE Spec2Model ----
(***************************************************************************)
(* Model of policies/checkov/custom_policies.py: the seven Eightpoint      *)
(* Checkov checks CKV_EIGHTPOINT_001..007.  Every check is a pure function *)
(* scan_resource_conf(conf) of one configuration record.  The host picks a *)
(* check and a record (Init), invokes the check (one action per check),    *)
(* and the check either returns a verdict or raises a Python exception.    *)
(*                                                                         *)
(* Python values are tagged records; Python strings are sequences of       *)
(* one-character strings so that startswith, `in`, split and lower are     *)
(* computed character by character.                                        *)
(***************************************************************************)
EXTENDS Integers, Sequences, FiniteSets, TLC

VARIABLES id, conf, result

vars == <<id, conf, result>>

----------------------------------------------------------------------------
(* Bounds of the input domain *)

\* names (bucket, security group, role) are concatenations of at most this many pieces
MaxNamePieces == 4
\* descriptions are concatenations of at most this many pieces
MaxDescPieces == 2
\* backup_retention_period ranges over 0..MaxRetention
MaxRetention == 8
\* public_access_cidrs holds at most this many entries
MaxCidrs == 2

----------------------------------------------------------------------------
(* Python values *)

PyNone == [t |-> "none"]
PyStr(s) == [t |-> "str", s |-> s]
PyBool(b) == [t |-> "bool", b |-> b]
PyInt(n) == [t |-> "int", n |-> n]
PyList(xs) == [t |-> "list", items |-> xs]
PyDict(f) == [t |-> "dict", d |-> f]
\* a raised exception, propagated to the caller of scan_resource_conf
Exc(e) == [t |-> "exc", e |-> e]
IsExc(v) == v.t = "exc"

\* marks a key that the record does not have (used only to build records)
Absent == [t |-> "absent"]

\* the mapping that holds the given <<key, value>> pairs, without the Absent ones
MkDict(pairs) ==
    LET present == {i \in 1..Len(pairs) : pairs[i][2] # Absent}
        keys == {pairs[i][1] : i \in present}
    IN [k \in keys |-> pairs[CHOOSE i \in present : pairs[i][1] = k][2]]

EmptyDict == PyDict(MkDict(<<>>))

\* bool(v): Python truthiness
Truthy(v) ==
    CASE v.t = "none" -> FALSE
      [] v.t = "bool" -> v.b
      [] v.t = "int" -> v.n # 0
      [] v.t = "str" -> Len(v.s) > 0
      [] v.t = "list" -> Len(v.items) > 0
      [] v.t = "dict" -> DOMAIN v.d # {}

\* d.get(key, default) on a mapping
DictGet(d, key, default) == IF key \in DOMAIN d THEN d[key] ELSE default

\* v.get(key, default) on any value: only a dict has the method
MethodGet(v, key, default) ==
    IF v.t = "dict" THEN DictGet(v.d, key, default) ELSE Exc("AttributeError")

\* v[0]
Subscript0(v) ==
    CASE v.t = "list" -> IF Len(v.items) > 0 THEN v.items[1] ELSE Exc("IndexError")
      [] v.t = "str" -> IF Len(v.s) > 0 THEN PyStr(<<v.s[1]>>) ELSE Exc("IndexError")
      [] v.t = "dict" -> Exc("KeyError")
      [] OTHER -> Exc("TypeError")

----------------------------------------------------------------------------
(* Python strings *)

UpperLetters == <<"A","B","C","D","E","F","G","H","I","J","K","L","M",
                  "N","O","P","Q","R","S","T","U","V","W","X","Y","Z">>
LowerLetters == <<"a","b","c","d","e","f","g","h","i","j","k","l","m",
                  "n","o","p","q","r","s","t","u","v","w","x","y","z">>

LowerChar(c) ==
    IF \E i \in 1..26 : UpperLetters[i] = c
    THEN LowerLetters[CHOOSE i \in 1..26 : UpperLetters[i] = c]
    ELSE c

\* s.lower()
Lower(s) == [i \in 1..Len(s) |-> LowerChar(s[i])]

\* v.lower() on any value: only a str has the method
MethodLower(v) == IF v.t = "str" THEN PyStr(Lower(v.s)) ELSE Exc("AttributeError")

\* s.startswith(p)
StartsWith(s, p) == Len(p) <= Len(s) /\ SubSeq(s, 1, Len(p)) = p

\* sub in s
Contains(s, sub) ==
    \E i \in 1..(Len(s) - Len(sub) + 1) : SubSeq(s, i, i + Len(sub) - 1) = sub

\* s.split(sep) for a one-character separator
RECURSIVE Split(_, _)
Split(s, sep) ==
    IF \E i \in 1..Len(s) : s[i] = sep
    THEN LET k == CHOOSE i \in 1..Len(s) : s[i] = sep /\ \A j \in 1..(i-1) : s[j] # sep
         IN <<SubSeq(s, 1, k - 1)>> \o Split(SubSeq(s, k + 1, Len(s)), sep)
    ELSE <<s>>

hy == <<"-">>
ios == <<"i","o","s">>
android == <<"a","n","d","r","o","i","d">>
shared == <<"s","h","a","r","e","d">>
mob == <<"m","o","b">>
dev == <<"d","e","v">>
prod == <<"p","r","o","d">>
global == <<"g","l","o","b","a","l">>
test == <<"t","e","s","t">>
production == <<"p","r","o","d","u","c","t","i","o","n">>
terraform == <<"t","e","r","r","a","f","o","r","m">>
open_cidr == <<"0",".","0",".","0",".","0","/","0">>

----------------------------------------------------------------------------
(* The verdicts (CheckResult) and the seven checks *)

PASSED == "PASSED"
FAILED == "FAILED"
CheckResult == {PASSED, FAILED}

\* v >= n for an int n: defined for int and bool (True is 1), a TypeError otherwise
GreaterEq(v, n) ==
    CASE v.t = "int" -> PyBool(v.n >= n)
      [] v.t = "bool" -> PyBool((IF v.b THEN 1 ELSE 0) >= n)
      [] OTHER -> Exc("TypeError")

\* key in v, for a str key and a dict, list or scalar v (the records hold no list
\* of str under tags, so a list never holds the key)
KeyIn(key, v) ==
    CASE v.t = "dict" -> PyBool(key \in DOMAIN v.d)
      [] v.t = "list" -> PyBool(FALSE)
      [] v.t \in {"none", "bool", "int"} -> Exc("TypeError")

\* s in v, for a str s and a list or scalar v
StrIn(s, v) ==
    CASE v.t = "list" -> PyBool(\E i \in 1..Len(v.items) : v.items[i] = PyStr(s))
      [] v.t = "str" -> PyBool(Contains(v.s, s))
      [] v.t = "dict" -> PyBool(FALSE)
      [] OTHER -> Exc("TypeError")

valid_prefixes == {ios \o hy, android \o hy, shared \o hy, mob \o hy}
valid_environments_001 == {hy \o dev \o hy, hy \o prod \o hy, hy \o global \o hy}

\* 001 with `or` for `and`: a valid prefix or a valid environment is enough
S3BucketNaming_prefix_or_env(c) ==
    LET got == DictGet(c, "bucket", PyNone)
        bucket_name == IF Truthy(got) /\ got.t = "list" THEN got.items[1] ELSE got
    IN IF Truthy(bucket_name)
       THEN IF bucket_name.t # "str" THEN "AttributeError"
            ELSE LET has_valid_prefix == \E prefix \in valid_prefixes :
                                             StartsWith(bucket_name.s, prefix)
                     has_valid_env == \E env \in valid_environments_001 :
                                             Contains(bucket_name.s, env)
                 IN IF has_valid_prefix \/ has_valid_env THEN PASSED ELSE FAILED
       ELSE FAILED

\* CKV_EIGHTPOINT_001
EightpointS3BucketNaming_scan_resource_conf(c) ==
    LET got == DictGet(c, "bucket", PyNone)
        bucket_name == IF Truthy(got) /\ got.t = "list" THEN got.items[1] ELSE got
    IN IF Truthy(bucket_name)
       THEN IF bucket_name.t # "str" THEN "AttributeError"
            ELSE LET has_valid_prefix == \E prefix \in valid_prefixes :
                                             StartsWith(bucket_name.s, prefix)
                     has_valid_env == \E env \in valid_environments_001 :
                                             Contains(bucket_name.s, env)
                 IN IF has_valid_prefix /\ has_valid_env THEN PASSED ELSE FAILED
       ELSE FAILED

required_tags == <<"Team", "Environment", "Project", "ManagedBy">>
valid_teams == {ios, android, shared}
valid_environments_002 == {dev, prod, global, test}

\* CKV_EIGHTPOINT_002
EightpointResourceTagging_scan_resource_conf(c) ==
    LET tags == DictGet(c, "tags", PyNone)
    IN IF ~Truthy(tags) \/ tags.t # "list" THEN FAILED
       ELSE
       LET tags_dict == tags.items[1]
           probe == [i \in 1..Len(required_tags) |-> KeyIn(required_tags[i], tags_dict)]
           \* the first required tag whose membership test raises or fails
           stop == {i \in 1..Len(required_tags) : IsExc(probe[i]) \/ ~probe[i].b}
           team_value == MethodLower(MethodGet(tags_dict, "Team", PyStr(<<>>)))
           env_value == MethodLower(MethodGet(tags_dict, "Environment", PyStr(<<>>)))
           managed_by == MethodLower(MethodGet(tags_dict, "ManagedBy", PyStr(<<>>)))
       IN IF stop # {}
          THEN LET i == CHOOSE i \in stop : \A j \in stop : i <= j
               IN IF IsExc(probe[i]) THEN probe[i].e ELSE FAILED
          ELSE IF IsExc(team_value) THEN team_value.e
          ELSE IF team_value.s \notin valid_teams THEN FAILED
          ELSE IF IsExc(env_value) THEN env_value.e
          ELSE IF env_value.s \notin valid_environments_002 THEN FAILED
          ELSE IF IsExc(managed_by) THEN managed_by.e
          ELSE IF managed_by.s # terraform THEN FAILED
          ELSE PASSED

sg_teams == {ios, android, shared}
sg_environments == {dev, prod, global}

\* 003 asking for 3 parts instead of 4
SecurityGroupNaming_three_parts(c) ==
    LET got == DictGet(c, "name", PyNone)
        sg_name == IF Truthy(got) /\ got.t = "list" THEN got.items[1] ELSE got
    IN IF Truthy(sg_name)
       THEN IF sg_name.t # "str" THEN "AttributeError"
            ELSE LET parts == Split(sg_name.s, "-")
                 IN IF Len(parts) < 3 THEN FAILED
                    ELSE IF parts[1] \notin sg_teams THEN FAILED
                    ELSE IF parts[2] \notin sg_environments THEN FAILED
                    ELSE PASSED
       ELSE FAILED

\* CKV_EIGHTPOINT_003
EightpointSecurityGroupNaming_scan_resource_conf(c) ==
    LET got == DictGet(c, "name", PyNone)
        sg_name == IF Truthy(got) /\ got.t = "list" THEN got.items[1] ELSE got
    IN IF Truthy(sg_name)
       THEN IF sg_name.t # "str" THEN "AttributeError"
            ELSE LET parts == Split(sg_name.s, "-")
                 IN IF Len(parts) < 4 THEN FAILED
                    ELSE IF parts[1] \notin sg_teams THEN FAILED
                    ELSE IF parts[2] \notin sg_environments THEN FAILED
                    ELSE PASSED
       ELSE FAILED

\* 004 without the lower() on the environment part
IAMRoleNaming_environment_case_sensitive(c) ==
    LET got == DictGet(c, "name", PyNone)
        role_name == IF Truthy(got) /\ got.t = "list" THEN got.items[1] ELSE got
    IN IF Truthy(role_name)
       THEN IF role_name.t # "str" THEN "AttributeError"
            ELSE LET parts == Split(role_name.s, "-")
                 IN IF Len(parts) < 4 THEN FAILED
                    ELSE IF Lower(parts[1]) \notin sg_teams THEN FAILED
                    ELSE IF parts[2] \notin sg_environments THEN FAILED
                    ELSE PASSED
       ELSE FAILED

\* CKV_EIGHTPOINT_004
EightpointIAMRoleNaming_scan_resource_conf(c) ==
    LET got == DictGet(c, "name", PyNone)
        role_name == IF Truthy(got) /\ got.t = "list" THEN got.items[1] ELSE got
    IN IF Truthy(role_name)
       THEN IF role_name.t # "str" THEN "AttributeError"
            ELSE LET parts == Split(role_name.s, "-")
                 IN IF Len(parts) < 4 THEN FAILED
                    ELSE IF Lower(parts[1]) \notin sg_teams THEN FAILED
                    ELSE IF Lower(parts[2]) \notin sg_environments THEN FAILED
                    ELSE PASSED
       ELSE FAILED

\* tags = conf.get('tags', [{}]); tags_dict = tags[0] if tags else {}
TagsDict(c) ==
    LET tags == DictGet(c, "tags", PyList(<<EmptyDict>>))
    IN IF Truthy(tags) THEN Subscript0(tags) ELSE EmptyDict

\* tags_dict.get('Environment', '').lower()
EnvironmentOf(tags_dict) ==
    LET v == MethodGet(tags_dict, "Environment", PyStr(<<>>))
    IN IF IsExc(v) THEN v ELSE MethodLower(v)

\* CKV_EIGHTPOINT_005
EightpointKMSKeyRotation_scan_resource_conf(c) ==
    LET tags_dict == TagsDict(c)
        description == IF Truthy(DictGet(c, "description", PyNone))
                       THEN Subscript0(DictGet(c, "description", PyList(<<PyStr(<<>>)>>)))
                       ELSE PyStr(<<>>)
        env == EnvironmentOf(tags_dict)
        lowered == MethodLower(description)
        rotation_enabled == DictGet(c, "enable_key_rotation", PyNone)
        production_verdict ==
            IF Truthy(rotation_enabled) /\ rotation_enabled.t = "list"
            THEN IF Truthy(rotation_enabled.items[1]) THEN PASSED ELSE FAILED
            ELSE FAILED
    IN IF IsExc(tags_dict) THEN tags_dict.e
       ELSE IF IsExc(description) THEN description.e
       ELSE IF IsExc(env) THEN env.e
       ELSE IF env.s = prod THEN production_verdict
       ELSE IF IsExc(lowered) THEN lowered.e
       ELSE IF Contains(lowered.s, prod) \/ Contains(lowered.s, production)
            THEN production_verdict
       ELSE PASSED

\* CKV_EIGHTPOINT_006
EightpointRDSBackupRetention_scan_resource_conf(c) ==
    LET tags_dict == TagsDict(c)
        environment == EnvironmentOf(tags_dict)
        backup_retention == DictGet(c, "backup_retention_period", PyNone)
    IN IF IsExc(tags_dict) THEN tags_dict.e
       ELSE IF IsExc(environment) THEN environment.e
       ELSE IF Truthy(backup_retention) /\ backup_retention.t = "list"
       THEN LET retention_days == backup_retention.items[1]
                enough == IF environment.s = prod \/ environment.s = production
                          THEN GreaterEq(retention_days, 7)
                          ELSE GreaterEq(retention_days, 1)
            IN IF IsExc(enough) THEN enough.e
               ELSE IF enough.b THEN PASSED ELSE FAILED
       ELSE FAILED

\* vpc_config.get(key, default)[0]
NestedFlag(vpc_config, key, default) ==
    LET v == MethodGet(vpc_config, key, PyList(<<PyBool(default)>>))
    IN IF IsExc(v) THEN v ELSE Subscript0(v)

\* CKV_EIGHTPOINT_007
EightpointEKSEndpointAccess_scan_resource_conf(c) ==
    LET got == DictGet(c, "vpc_config", PyNone)
    IN IF ~Truthy(got) \/ got.t # "list" THEN FAILED
       ELSE
       LET vpc_config == got.items[1]
           private_access == NestedFlag(vpc_config, "endpoint_private_access", FALSE)
           public_access == NestedFlag(vpc_config, "endpoint_public_access", TRUE)
           public_cidrs == MethodGet(vpc_config, "public_access_cidrs", PyList(<<>>))
           open == StrIn(open_cidr, public_cidrs)
       IN IF IsExc(private_access) THEN private_access.e
          ELSE IF ~Truthy(private_access) THEN FAILED
          ELSE IF IsExc(public_access) THEN public_access.e
          ELSE IF ~Truthy(public_access) THEN PASSED
          ELSE IF ~Truthy(public_cidrs) THEN FAILED
          ELSE IF IsExc(open) THEN open.e
          ELSE IF open.b THEN FAILED
          ELSE PASSED

----------------------------------------------------------------------------
(* The records the host hands to the checks *)

\* all concatenations of at most n pieces
RECURSIVE Concats(_, _)
Concats(pieces, n) ==
    IF n = 0 THEN {<<>>}
    ELSE LET prev == Concats(pieces, n - 1)
         IN prev \cup {s \o p : s \in prev, p \in pieces}

\* all sequences over S of length at most n
SeqsUpTo(S, n) == UNION {[1..k -> S] : k \in 0..n}

\* an attribute whose values are V: missing, an empty sequence, bare, or wrapped
Shapes(V) == {Absent, PyList(<<>>)} \cup V \cup {PyList(<<v>>) : v \in V}

web == <<"w","e","b">>
x_ == <<"x">>
IOS_upper == <<"I","O","S">>
iOS_mixed == <<"i","O","S">>
Dev_cap == <<"D","e","v">>
Prod_cap == <<"P","r","o","d">>
Terraform_cap == <<"T","e","r","r","a","f","o","r","m">>
manual == <<"m","a","n","u","a","l">>
state == <<"s","t","a","t","e">>
key_word == <<" ","k","e","y">>
non_ == <<"n","o","n","-">>
ten_cidr == <<"1","0",".","0",".","0",".","0","/","8">>

\* bucket names: 'ios-dev-x', 'ios-x-prod-x', 'x-dev-x', 'ios-x', ...
BucketPieces == {ios \o hy, mob \o hy, dev \o hy, hy \o prod \o hy, x_, hy}
BucketExamples ==
    { ios \o hy \o dev \o hy \o terraform \o hy \o state,
      ios \o hy \o terraform \o hy \o state,
      android \o hy \o prod \o hy \o <<"a","p","p">> \o hy \o <<"s","t","o","r","a","g","e">>,
      shared \o hy \o global \o hy \o x_ }
BucketNames == Concats(BucketPieces, MaxNamePieces) \cup BucketExamples

\* security group and role names: 'ios-dev-x-x', 'iOS-Dev--', 'dev-dev-x-', ...
NamePieces == {ios \o hy, iOS_mixed \o hy, dev \o hy, Dev_cap \o hy, x_, hy}
NameExamples ==
    { ios \o hy \o dev \o hy \o <<"e","k","s">> \o hy \o <<"c","l","u","s","t","e","r">>,
      IOS_upper \o hy \o dev \o hy \o <<"e","k","s">> \o hy \o <<"c","l","u","s","t","e","r">>,
      ios \o hy \o dev,
      iOS_mixed \o hy \o Dev_cap \o hy \o <<"E","K","S">> \o hy \o <<"N","o","d","e","G","r","o","u","p">>,
      android \o hy \o Prod_cap \o hy \o <<"L","a","m","b","d","a">> \o hy \o <<"E","x","e","c","u","t","i","o","n">> }
ResourceNames == Concats(NamePieces, MaxNamePieces) \cup NameExamples

NameShapes(names) == Shapes({PyStr(n) : n \in names}) \cup {PyNone}

Confs001 == {MkDict(<< <<"bucket", b>> >>) : b \in NameShapes(BucketNames)}
Confs003 == {MkDict(<< <<"name", n>> >>) : n \in NameShapes(ResourceNames)}
Confs004 == Confs003

OrAbsent(strs) == {Absent} \cup {PyStr(v) : v \in strs}

\* tag mappings for the tagging check; "team" is a wrongly-cased key
FullTagDicts ==
    { PyDict(MkDict(<< <<"Team", t>>, <<"Environment", e>>, <<"Project", p>>,
                       <<"ManagedBy", m>>, <<"team", l>> >>)) :
        t \in OrAbsent({ios, IOS_upper, web, <<>>}),
        e \in OrAbsent({dev, Prod_cap, test, production}),
        p \in OrAbsent({x_, <<>>}),
        m \in OrAbsent({terraform, Terraform_cap, manual}),
        l \in OrAbsent({ios}) }
Confs002 == {MkDict(<< <<"tags", t>> >>) : t \in Shapes(FullTagDicts)}

\* tag mappings for the checks that read only the Environment tag
EnvTagDicts ==
    { PyDict(MkDict(<< <<"Environment", e>> >>)) :
        e \in OrAbsent({prod, Prod_cap, dev, production}) }

\* descriptions: 'production key', 'non-prod', 'Prodx', 'x key', ...
DescPieces == {prod, Prod_cap, production, key_word, non_, x_}
Descriptions == Concats(DescPieces, MaxDescPieces)

Confs005 ==
    { MkDict(<< <<"tags", t>>, <<"description", d>>, <<"enable_key_rotation", r>> >>) :
        t \in Shapes(EnvTagDicts),
        d \in Shapes({PyStr(w) : w \in Descriptions}),
        r \in Shapes({PyBool(TRUE), PyBool(FALSE)}) }

Confs006 ==
    { MkDict(<< <<"tags", t>>, <<"backup_retention_period", r>> >>) :
        t \in Shapes(EnvTagDicts),
        r \in Shapes({PyInt(n) : n \in 0..MaxRetention}) }

CidrLists == {PyList(l) : l \in SeqsUpTo({PyStr(open_cidr), PyStr(ten_cidr)}, MaxCidrs)}
VpcConfigs ==
    { PyDict(MkDict(<< <<"endpoint_private_access", a>>, <<"endpoint_public_access", b>>,
                       <<"public_access_cidrs", l>> >>)) :
        a \in Shapes({PyBool(TRUE), PyBool(FALSE)}),
        b \in Shapes({PyBool(TRUE), PyBool(FALSE)}),
        l \in {Absent} \cup CidrLists }
Confs007 == {MkDict(<< <<"vpc_config", v>> >>) : v \in Shapes(VpcConfigs)}

----------------------------------------------------------------------------
(* The host: one check is invoked once on one record *)

NONE == "NONE"

ConfsOf(check) ==
    CASE check = "CKV_EIGHTPOINT_001" -> Confs001
      [] check = "CKV_EIGHTPOINT_002" -> Confs002
      [] check = "CKV_EIGHTPOINT_003" -> Confs003
      [] check = "CKV_EIGHTPOINT_004" -> Confs004
      [] check = "CKV_EIGHTPOINT_005" -> Confs005
      [] check = "CKV_EIGHTPOINT_006" -> Confs006
      [] check = "CKV_EIGHTPOINT_007" -> Confs007

Checks == {"CKV_EIGHTPOINT_001", "CKV_EIGHTPOINT_002", "CKV_EIGHTPOINT_003",
           "CKV_EIGHTPOINT_004", "CKV_EIGHTPOINT_005", "CKV_EIGHTPOINT_006",
           "CKV_EIGHTPOINT_007"}

Init ==
    /\ id \in Checks
    /\ conf \in ConfsOf(id)
    /\ result = NONE

Scan001 ==
    /\ id = "CKV_EIGHTPOINT_001" /\ result = NONE
    /\ result' = EightpointS3BucketNaming_scan_resource_conf(conf)
    /\ UNCHANGED <<id, conf>>

Scan002 ==
    /\ id = "CKV_EIGHTPOINT_002" /\ result = NONE
    /\ result' = EightpointResourceTagging_scan_resource_conf(conf)
    /\ UNCHANGED <<id, conf>>

Scan003 ==
    /\ id = "CKV_EIGHTPOINT_003" /\ result = NONE
    /\ result' = EightpointSecurityGroupNaming_scan_resource_conf(conf)
    /\ UNCHANGED <<id, conf>>

Scan004 ==
    /\ id = "CKV_EIGHTPOINT_004" /\ result = NONE
    /\ result' = EightpointIAMRoleNaming_scan_resource_conf(conf)
    /\ UNCHANGED <<id, conf>>

Scan005 ==
    /\ id = "CKV_EIGHTPOINT_005" /\ result = NONE
    /\ result' = EightpointKMSKeyRotation_scan_resource_conf(conf)
    /\ UNCHANGED <<id, conf>>

Scan006 ==
    /\ id = "CKV_EIGHTPOINT_006" /\ result = NONE
    /\ result' = EightpointRDSBackupRetention_scan_resource_conf(conf)
    /\ UNCHANGED <<id, conf>>

Scan007 ==
    /\ id = "CKV_EIGHTPOINT_007" /\ result = NONE
    /\ result' = EightpointEKSEndpointAccess_scan_resource_conf(conf)
    /\ UNCHANGED <<id, conf>>

Next ==
    \/ Scan001
    \/ Scan002
    \/ Scan003
    \/ Scan004
    \/ Scan005
    \/ Scan006
    \/ Scan007

Spec == Init /\ [][Next]_vars

\* the host's call of the check's scan_resource_conf
ScanOf(check, c) ==
    CASE check = "CKV_EIGHTPOINT_001" -> EightpointS3BucketNaming_scan_resource_conf(c)
      [] check = "CKV_EIGHTPOINT_002" -> EightpointResourceTagging_scan_resource_conf(c)
      [] check = "CKV_EIGHTPOINT_003" -> EightpointSecurityGroupNaming_scan_resource_conf(c)
      [] check = "CKV_EIGHTPOINT_004" -> EightpointIAMRoleNaming_scan_resource_conf(c)
      [] check = "CKV_EIGHTPOINT_005" -> EightpointKMSKeyRotation_scan_resource_conf(c)
      [] check = "CKV_EIGHTPOINT_006" -> EightpointRDSBackupRetention_scan_resource_conf(c)
      [] check = "CKV_EIGHTPOINT_007" -> EightpointEKSEndpointAccess_scan_resource_conf(c)

----------------------------------------------------------------------------
(* The specification's reading of a record (spec.md, section 3) *)

\* get(record, key): unwraps one level of sequence-wrapping; absent if the key is
\* missing, None, or an empty sequence
SpecGet(d, key) ==
    IF key \notin DOMAIN d THEN Absent
    ELSE LET v == d[key]
         IN IF v = PyNone THEN Absent
            ELSE IF v.t = "list"
                 THEN IF Len(v.items) = 0 THEN Absent ELSE v.items[1]
                 ELSE v

\* the lower-cased Environment tag of the record, empty when there is none
SpecEnvironment(c) ==
    LET tags == SpecGet(c, "tags")
    IN IF tags # Absent /\ tags.t = "dict" /\ "Environment" \in DOMAIN tags.d
       THEN Lower(tags.d["Environment"].s)
       ELSE <<>>

\* s = p followed by something
HasPrefix(s, p) == \E k \in 0..Len(s) : s = p \o SubSeq(s, k + 1, Len(s))

\* sub occurs in s at some position
Occurs(s, sub) == \E i \in 0..Len(s) : \E j \in i..Len(s) : SubSeq(s, i + 1, j) = sub

Evaluated == result # NONE

\* the attributes a check reads at the top level of the record
AttributesOf(check) ==
    CASE check = "CKV_EIGHTPOINT_001" -> {"bucket"}
      [] check = "CKV_EIGHTPOINT_002" -> {"tags"}
      [] check \in {"CKV_EIGHTPOINT_003", "CKV_EIGHTPOINT_004"} -> {"name"}
      [] check = "CKV_EIGHTPOINT_005" -> {"tags", "description", "enable_key_rotation"}
      [] check = "CKV_EIGHTPOINT_006" -> {"tags", "backup_retention_period"}
      [] check = "CKV_EIGHTPOINT_007" -> {"vpc_config"}

\* the attributes check 007 reads inside vpc_config through the unwrapping accessor
NestedAttributes == {"endpoint_private_access", "endpoint_public_access"}

Without(d, key) == [k \in DOMAIN d \ {key} |-> d[k]]

\* the vpc_config block of the record, however it is given; Absent if there is none
VpcBlock(c) ==
    LET v == SpecGet(c, "vpc_config")
    IN IF v # Absent /\ v.t = "dict" THEN v ELSE Absent

\* the record with its vpc_config block replaced, in the shape it came in
WithVpcBlock(c, d) ==
    [c EXCEPT !["vpc_config"] = IF @.t = "list" THEN PyList(<<PyDict(d)>>) ELSE PyDict(d)]

\* every attribute the check reads is missing or a one-element sequence
HostConvention(check, c) ==
    /\ \A k \in AttributesOf(check) \cap DOMAIN c : c[k].t = "list" /\ Len(c[k].items) = 1
    /\ check = "CKV_EIGHTPOINT_007" /\ VpcBlock(c) # Absent =>
          \A k \in NestedAttributes \cap DOMAIN VpcBlock(c).d :
              VpcBlock(c).d[k].t = "list" /\ Len(VpcBlock(c).d[k].items) = 1

----------------------------------------------------------------------------
(* C1 *)

\* C1: every check returns a verdict on every record and never raises
Totality == Evaluated => result \in CheckResult

----------------------------------------------------------------------------
(* C2 *)

Expected005(c) ==
    LET desc == SpecGet(c, "description")
        description == IF desc = Absent THEN <<>> ELSE Lower(desc.s)
        is_production == SpecEnvironment(c) = prod \/ Occurs(description, prod)
        rotation == SpecGet(c, "enable_key_rotation")
    IN IF ~is_production THEN PASSED
       ELSE IF rotation # Absent /\ rotation = PyBool(TRUE) THEN PASSED
       ELSE FAILED

\* C2: rule 005 passes every non-production record, and passes a production record
\* iff enable_key_rotation is present and, unwrapped, true
Rule005Decision ==
    (id = "CKV_EIGHTPOINT_005" /\ Evaluated) => result = Expected005(conf)

\* rule 005 decides as above on the records in the host's convention
Rule005DecisionHostConvention ==
    (id = "CKV_EIGHTPOINT_005" /\ Evaluated /\ HostConvention(id, conf))
        => result = Expected005(conf)

----------------------------------------------------------------------------
(* C3 *)

Expected007(c) ==
    LET vpc == VpcBlock(c)
    IN IF vpc = Absent THEN FAILED
       ELSE
       LET private == SpecGet(vpc.d, "endpoint_private_access")
           public == SpecGet(vpc.d, "endpoint_public_access")
           public_access == IF public = Absent THEN TRUE ELSE public.b
           cidrs == IF "public_access_cidrs" \in DOMAIN vpc.d
                    THEN vpc.d["public_access_cidrs"].items ELSE <<>>
       IN IF private = Absent \/ private = PyBool(FALSE) THEN FAILED
          ELSE IF ~public_access THEN PASSED
          ELSE IF Len(cidrs) = 0 \/ \E i \in 1..Len(cidrs) : cidrs[i] = PyStr(open_cidr)
               THEN FAILED
          ELSE PASSED

\* C3: rule 007 fails without vpc_config or private access, passes with public
\* access off, and with public access on passes iff the CIDR list is non-empty
\* and does not hold 0.0.0.0/0
Rule007Decision ==
    (id = "CKV_EIGHTPOINT_007" /\ Evaluated) => result = Expected007(conf)

\* rule 007 decides as above on the records in the host's convention
Rule007DecisionHostConvention ==
    (id = "CKV_EIGHTPOINT_007" /\ Evaluated /\ HostConvention(id, conf))
        => result = Expected007(conf)

----------------------------------------------------------------------------
(* C4 *)

Expected002(c) ==
    LET tags == SpecGet(c, "tags")
    IN IF tags = Absent \/ tags.t # "dict" THEN FAILED
       ELSE IF /\ {"Team", "Environment", "Project", "ManagedBy"} \subseteq DOMAIN tags.d
               /\ Lower(tags.d["Team"].s) \in {ios, android, shared}
               /\ Lower(tags.d["Environment"].s) \in {dev, prod, global, test}
               /\ Lower(tags.d["ManagedBy"].s) = terraform
            THEN PASSED
       ELSE FAILED

\* C4: rule 002 passes iff the tags unwrap to a mapping with the four required
\* keys, a valid team, a valid environment and ManagedBy terraform (values
\* lower-cased)
Rule002Decision ==
    (id = "CKV_EIGHTPOINT_002" /\ Evaluated) => result = Expected002(conf)

\* rule 002 decides as above on the records in the host's convention
Rule002DecisionHostConvention ==
    (id = "CKV_EIGHTPOINT_002" /\ Evaluated /\ HostConvention(id, conf))
        => result = Expected002(conf)

----------------------------------------------------------------------------
(* C5 *)

Expected006(c) ==
    LET r == SpecGet(c, "backup_retention_period")
        E == SpecEnvironment(c)
    IN IF r = Absent THEN FAILED
       ELSE IF E = prod \/ E = production
            THEN IF r.n >= 7 THEN PASSED ELSE FAILED
       ELSE IF r.n >= 1 THEN PASSED ELSE FAILED

\* C5: rule 006 fails without backup_retention_period, and otherwise passes iff
\* the retention is at least 7 days for prod/production and at least 1 day for
\* every other environment
Rule006Decision ==
    (id = "CKV_EIGHTPOINT_006" /\ Evaluated) => result = Expected006(conf)

\* rule 006 decides as above on the records in the host's convention
Rule006DecisionHostConvention ==
    (id = "CKV_EIGHTPOINT_006" /\ Evaluated /\ HostConvention(id, conf))
        => result = Expected006(conf)

----------------------------------------------------------------------------
(* C6 *)

IsBare(v) == v.t # "list"

\* C6: giving an attribute as the one-element sequence [v] instead of the bare
\* value v does not change the verdict of the check that reads it
UniformUnwrapping ==
    Evaluated =>
      /\ \A k \in AttributesOf(id) \cap DOMAIN conf :
            IsBare(conf[k]) =>
                ScanOf(id, [conf EXCEPT ![k] = PyList(<<@>>)]) = result
      /\ (id = "CKV_EIGHTPOINT_007" /\ VpcBlock(conf) # Absent) =>
            \A k \in NestedAttributes \cap DOMAIN VpcBlock(conf).d :
                IsBare(VpcBlock(conf).d[k]) =>
                    ScanOf(id, WithVpcBlock(conf,
                        [VpcBlock(conf).d EXCEPT ![k] = PyList(<<@>>)])) = result

----------------------------------------------------------------------------
(* C7 *)

IsEmptySequence(v) == v = PyList(<<>>)

\* C7: giving an attribute as an empty sequence has the outcome of the record
\* without that attribute: the same verdict, and no fault where that record has none
EmptySequenceIsAbsent ==
    Evaluated =>
      /\ \A k \in AttributesOf(id) \cap DOMAIN conf :
            IsEmptySequence(conf[k]) =>
                LET absent == ScanOf(id, Without(conf, k))
                IN /\ absent \in CheckResult => result \in CheckResult
                   /\ result = absent
      /\ (id = "CKV_EIGHTPOINT_007" /\ VpcBlock(conf) # Absent) =>
            \A k \in NestedAttributes \cap DOMAIN VpcBlock(conf).d :
                IsEmptySequence(VpcBlock(conf).d[k]) =>
                    LET absent == ScanOf(id, WithVpcBlock(conf, Without(VpcBlock(conf).d, k)))
                    IN /\ absent \in CheckResult => result \in CheckResult
                       /\ result = absent

----------------------------------------------------------------------------
(* C8 *)

Expected001(c) ==
    LET name == SpecGet(c, "bucket")
    IN IF name = Absent \/ name.s = <<>> THEN FAILED
       ELSE IF /\ \E p \in {ios \o hy, android \o hy, shared \o hy, mob \o hy} :
                     HasPrefix(name.s, p)
               /\ \E e \in {hy \o dev \o hy, hy \o prod \o hy, hy \o global \o hy} :
                     Occurs(name.s, e)
            THEN PASSED
       ELSE FAILED

\* C8: rule 001 fails without a bucket name, and otherwise passes iff the name
\* starts with a team prefix and holds an environment token at any position
Rule001Decision ==
    (id = "CKV_EIGHTPOINT_001" /\ Evaluated) => result = Expected001(conf)

\* a bucket passes whose environment token does not follow the team prefix
\* directly: 'ios-x-prod-x', given wrapped
Rule001Witness ==
    /\ id = "CKV_EIGHTPOINT_001"
    /\ conf = MkDict(<< <<"bucket",
                 PyList(<<PyStr(ios \o hy \o x_ \o hy \o prod \o hy \o x_)>>)>> >>)
    /\ result = PASSED

----------------------------------------------------------------------------
(* C9 *)

Hyphens(s) == {i \in 1..Len(s) : s[i] = "-"}

\* the position of the k-th hyphen of s; 0 for k = 0 and Len(s) + 1 past the last
HyphenAt(s, k) ==
    IF k = 0 THEN 0
    ELSE IF k > Cardinality(Hyphens(s)) THEN Len(s) + 1
    ELSE CHOOSE i \in Hyphens(s) : Cardinality({j \in Hyphens(s) : j <= i}) = k

\* the k-th hyphen-separated part of s, counted from 0
PartOf(s, k) == SubSeq(s, HyphenAt(s, k) + 1, HyphenAt(s, k + 1) - 1)

PartCount(s) == Cardinality(Hyphens(s)) + 1

Expected003(c) ==
    LET name == SpecGet(c, "name")
    IN IF /\ name # Absent
          /\ name.s # <<>>
          /\ PartCount(name.s) >= 4
          /\ PartOf(name.s, 0) \in {ios, android, shared}
          /\ PartOf(name.s, 1) \in {dev, prod, global}
       THEN PASSED
       ELSE FAILED

\* C9: rule 003 passes iff the name is present, has at least 4 hyphen-separated
\* parts, part 0 is exactly a team and part 1 exactly an environment; the later
\* parts are not looked at
Rule003Decision ==
    (id = "CKV_EIGHTPOINT_003" /\ Evaluated) => result = Expected003(conf)

\* a name passes whose parts from index 2 on are empty: 'ios-dev--'
Rule003Witness ==
    /\ id = "CKV_EIGHTPOINT_003"
    /\ conf = MkDict(<< <<"name", PyStr(ios \o hy \o dev \o hy \o hy)>> >>)
    /\ result = PASSED

----------------------------------------------------------------------------
(* C10 *)

\* s with its first two hyphen-separated parts lower-cased
LowerFirstTwo(s) ==
    [i \in 1..Len(s) |->
        IF Cardinality({j \in Hyphens(s) : j < i}) < 2 THEN LowerChar(s[i]) ELSE s[i]]

LowerFirstTwoValue(v) ==
    CASE v.t = "str" -> PyStr(LowerFirstTwo(v.s))
      [] v.t = "list" /\ Len(v.items) = 1 -> PyList(<<PyStr(LowerFirstTwo(v.items[1].s))>>)
      [] OTHER -> v

\* the record with the first two parts of its name lower-cased
LowerFirstTwoConf(c) == [k \in DOMAIN c |-> LowerFirstTwoValue(c[k])]

\* the values of V, bare and wrapped
Wrappings(V) == V \cup {PyList(<<v>>) : v \in V}

RoleExamples ==
    { iOS_mixed \o hy \o Dev_cap \o hy \o <<"E","K","S">> \o hy
          \o <<"N","o","d","e","G","r","o","u","p">>,
      android \o hy \o Prod_cap \o hy \o <<"L","a","m","b","d","a">> \o hy
          \o <<"E","x","e","c","u","t","i","o","n">> }

\* C10: the verdict of rule 004 on a name is the verdict of rule 003 on the name
\* with its first two parts lower-cased; what passes 003 passes 004; the two
\* example role names pass 004
Rule004IsRule003CaseInsensitive ==
    /\ (id = "CKV_EIGHTPOINT_004" /\ Evaluated) =>
          /\ result = EightpointSecurityGroupNaming_scan_resource_conf(LowerFirstTwoConf(conf))
          /\ ("name" \in DOMAIN conf /\ conf["name"] \in Wrappings({PyStr(n) : n \in RoleExamples}))
                => result = PASSED
    /\ (id = "CKV_EIGHTPOINT_003" /\ result = PASSED) =>
          EightpointIAMRoleNaming_scan_resource_conf(conf) = PASSED

\* the example role name 'iOS-Dev-EKS-NodeGroup' passes 004 and fails 003
Rule004Witness ==
    /\ id = "CKV_EIGHTPOINT_004"
    /\ conf = MkDict(<< <<"name", PyList(<<PyStr(iOS_mixed \o hy \o Dev_cap \o hy
                  \o <<"E","K","S">> \o hy \o <<"N","o","d","e","G","r","o","u","p">>)>>)>> >>)
    /\ result = PASSED
    /\ EightpointSecurityGroupNaming_scan_resource_conf(conf) = FAILED

====
